---- MODULE Spec2Model ----
(***************************************************************************)
(* Model of the zoological-park canister: two StableBTreeMap stores (Zoo   *)
(* and Animal records) and the $update / $query handlers over them.        *)
(*                                                                         *)
(* The repository holds two builds of the canister: src/src/index.ts (with *)
(* payload validation and an ownership check in deleteZoo) and             *)
(* src/unnamed/part_000 (no validation, plus updateAnimal, deleteAnimal    *)
(* and the derived queries).  A deployed canister is one of the two; the   *)
(* variable build, fixed by Init, says which.  Handlers of index.ts keep   *)
(* their names, handlers of part_000 carry the prefix part000_ when the    *)
(* name exists in both files.                                              *)
(*                                                                         *)
(* Every $update call runs to completion (the handlers hold no await), so  *)
(* each handler is one atomic action.  uuidv4() is modelled as a generator *)
(* that never repeats an id; ic.time() as a non-decreasing clock.  A       *)
(* StableBTreeMap.get returns a deserialized copy, so a handler changes a  *)
(* store only through insert and remove.  Store writes are taken to        *)
(* succeed (the size limits of the maps are not modelled).                 *)
(*                                                                         *)
(* Each handler h is modelled twice over: hCall is the handler as a        *)
(* function of the two stores and its inputs, giving the Result it         *)
(* returns, the value inside an Ok, and the stores it leaves; the action h *)
(* applies hCall to the canister's state.  A call that returns Err, having *)
(* written nothing, is a stuttering step.  The $query handlers are         *)
(* functions of the stores alone.                                          *)
(***************************************************************************)
EXTENDS Integers, Sequences, FiniteSets, TLC

VARIABLES build, zooStorage, animalStorage, uuids, now

vars == <<build, zooStorage, animalStorage, uuids, now>>

(* ---------------------------- bounds ---------------------------------- *)
MaxUuids == 3
MaxZoos == 2
MaxAnimals == 2
MaxTime == 1

(* ------------------------- injected capabilities ----------------------- *)
Builds == {"index", "part_000"}

\* uuidv4(): the n-th id handed out.
UuidPool == <<"u1", "u2", "u3", "u4", "u5", "u6">>
uuidv4(n) == UuidPool[n]

\* ic.caller(): the authenticated principals, and their textual form.
Principals == {1, 2}
PrincipalText == <<"rrkah-fqaaa-aaaaa-aaaaq-cai", "ryjl3-tyaaa-aaaaa-aaaba-cai">>
PrincipalToString(p) == PrincipalText[p]
\* ic.caller.toString(): the text of the function ic.caller itself.
IcCallerToString == "function caller() { [native code] }"

\* Opt<nat64>
None == <<>>
Some(t) == <<t>>

\* Result<T, string>; a message is the sequence of its literal and
\* interpolated parts.
Ok == [tag |-> "Ok", msg |-> <<>>]
Err(m) == [tag |-> "Err", msg |-> m]

\* JavaScript's !x on a string and on a number.
FalsyStr(s) == s = ""
FalsyNum(n) == n = 0

(* ------------------------------ inputs --------------------------------- *)
IdInputs == {""} \cup {uuidv4(i) : i \in 1..MaxUuids}

ZooPayloads ==
    { [name |-> "Central Park Zoo", location |-> "NYC", image |-> "url"],
      [name |-> "City Zoo",         location |-> "NYC", image |-> "url"],
      [name |-> "",                 location |-> "NYC", image |-> "url"] }

AnimalPayloads ==
    { [age |-> 5,  animalType |-> "Lion", name |-> "Leo", zooId |-> "u1"],
      [age |-> 0,  animalType |-> "Lion", name |-> "Leo", zooId |-> "u1"],
      [age |-> -1, animalType |-> "Lion", name |-> "Leo", zooId |-> "u1"],
      [age |-> 5,  animalType |-> "Lion", name |-> "",    zooId |-> "u2"] }

(* ----------------------------- StableBTreeMap -------------------------- *)
EmptyMap == [k \in {} |-> 0]
Has(store, k) == k \in DOMAIN store
Insert(store, k, v) == [x \in DOMAIN store \cup {k} |-> IF x = k THEN v ELSE store[x]]
Remove(store, k) == [x \in DOMAIN store \ {k} |-> store[x]]
Size(store) == Cardinality(DOMAIN store)

\* Mutant: only the first element is compared.
Includes_firstOnly(s, x) == Len(s) > 0 /\ s[1] = x

\* Array.prototype.includes / push / filter on animalSpecies
Includes(s, x) == \E i \in 1..Len(s) : s[i] = x
Push(s, x) == Append(s, x)
FilterOut(s, x) == SelectSeq(s, LAMBDA id : id # x)

\* What a call leaves behind: its Result, the value inside an Ok (None
\* inside an Err), and the two stores.
Return(r, v, zoos, animals) == [res |-> r, val |-> v, zoos |-> zoos, animals |-> animals]

Init ==
    /\ build \in Builds
    /\ zooStorage = EmptyMap
    /\ animalStorage = EmptyMap
    /\ uuids = 0
    /\ now = 0

\* The canister after a call: the stores the call leaves; a uuid and the
\* clock are consumed by the calls that read them and return Ok.
Commit(r, usesUuid, t) ==
    /\ zooStorage' = r.zoos
    /\ animalStorage' = r.animals
    /\ uuids' = IF usesUuid /\ r.res.tag = "Ok" THEN uuids + 1 ELSE uuids
    /\ now' = IF r.res.tag = "Ok" THEN t ELSE now
    /\ UNCHANGED build

(* ===================== src/src/index.ts: Zoo CRUD ====================== *)

ZooPayloadMissing(payload) ==
    FalsyStr(payload.name) \/ FalsyStr(payload.location) \/ FalsyStr(payload.image)

\* Mutant: the record is stored under its name instead of its id.
createZooCall_keyedByName(zoos, animals, payload, caller, id, t) ==
    IF ZooPayloadMissing(payload)
    THEN Return(Err(<<"Missing required fields in payload">>), None, zoos, animals)
    ELSE LET zoo == [id |-> id, createdAt |-> t, updatedAt |-> None,
                     animalSpecies |-> <<>>, owner |-> caller, name |-> payload.name,
                     location |-> payload.location, image |-> payload.image]
         IN Return(Ok, Some(zoo), Insert(zoos, zoo.name, zoo), animals)

createZooCall(zoos, animals, payload, caller, id, t) ==
    IF ZooPayloadMissing(payload)
    THEN Return(Err(<<"Missing required fields in payload">>), None, zoos, animals)
    ELSE LET zoo == [id |-> id, createdAt |-> t, updatedAt |-> None,
                     animalSpecies |-> <<>>, owner |-> caller, name |-> payload.name,
                     location |-> payload.location, image |-> payload.image]
         IN Return(Ok, Some(zoo), Insert(zoos, zoo.id, zoo), animals)

createZoo(payload, caller, t) ==
    /\ build = "index"
    /\ LET r == createZooCall(zooStorage, animalStorage, payload, caller, uuidv4(uuids + 1), t)
       IN /\ r.res.tag = "Ok" => uuids < MaxUuids /\ Size(zooStorage) < MaxZoos
          /\ Commit(r, TRUE, t)

\* $query getZooById
getZooById(zoos, id) ==
    IF FalsyStr(id) THEN [res |-> Err(<<"Invalid id=", id, ".">>), val |-> None]
    ELSE IF Has(zoos, id) THEN [res |-> Ok, val |-> Some(zoos[id])]
    ELSE [res |-> Err(<<"Zoo with id=", id, " not found.">>), val |-> None]

\* $query getAllZoos
getAllZoos(zoos) == {zoos[id] : id \in DOMAIN zoos}

\* Mutant: the record is written before the payload is validated.
updateZooCall_writesFirst(zoos, animals, id, payload, t) ==
    IF FalsyStr(id) THEN Return(Err(<<"Invalid id.">>), None, zoos, animals)
    ELSE IF Has(zoos, id)
    THEN LET updatedZoo == [zoos[id] EXCEPT !.name = payload.name,
                                            !.location = payload.location,
                                            !.image = payload.image,
                                            !.updatedAt = Some(t)]
             written == Insert(zoos, updatedZoo.id, updatedZoo)
         IN IF ZooPayloadMissing(payload)
            THEN Return(Err(<<"Missing required fields in payload.">>), None, written, animals)
            ELSE Return(Ok, Some(updatedZoo), written, animals)
    ELSE Return(Err(<<"Zoo with id=", id, " not found.">>), None, zoos, animals)

\* Mutant: the record is rebuilt with a fresh createdAt.
updateZooCall_resetsCreatedAt(zoos, animals, id, payload, t) ==
    IF FalsyStr(id) THEN Return(Err(<<"Invalid id.">>), None, zoos, animals)
    ELSE IF ZooPayloadMissing(payload)
    THEN Return(Err(<<"Missing required fields in payload.">>), None, zoos, animals)
    ELSE IF Has(zoos, id)
    THEN LET updatedZoo == [zoos[id] EXCEPT !.name = payload.name,
                                            !.location = payload.location,
                                            !.image = payload.image,
                                            !.createdAt = t,
                                            !.updatedAt = Some(t)]
         IN Return(Ok, Some(updatedZoo), Insert(zoos, updatedZoo.id, updatedZoo), animals)
    ELSE Return(Err(<<"Zoo with id=", id, " not found.">>), None, zoos, animals)

\* Mutant: updatedAt is copied from the existing record.
updateZooCall_keepsUpdatedAt(zoos, animals, id, payload, t) ==
    IF FalsyStr(id) THEN Return(Err(<<"Invalid id.">>), None, zoos, animals)
    ELSE IF ZooPayloadMissing(payload)
    THEN Return(Err(<<"Missing required fields in payload.">>), None, zoos, animals)
    ELSE IF Has(zoos, id)
    THEN LET updatedZoo == [zoos[id] EXCEPT !.name = payload.name,
                                            !.location = payload.location,
                                            !.image = payload.image]
         IN Return(Ok, Some(updatedZoo), Insert(zoos, updatedZoo.id, updatedZoo), animals)
    ELSE Return(Err(<<"Zoo with id=", id, " not found.">>), None, zoos, animals)

updateZooCall(zoos, animals, id, payload, t) ==
    IF FalsyStr(id) THEN Return(Err(<<"Invalid id.">>), None, zoos, animals)
    ELSE IF ZooPayloadMissing(payload)
    THEN Return(Err(<<"Missing required fields in payload.">>), None, zoos, animals)
    ELSE IF Has(zoos, id)
    THEN LET existingZoo == zoos[id]
             updatedZoo == [id |-> existingZoo.id, name |-> payload.name,
                            location |-> payload.location, image |-> payload.image,
                            owner |-> existingZoo.owner,
                            animalSpecies |-> existingZoo.animalSpecies,
                            createdAt |-> existingZoo.createdAt, updatedAt |-> Some(t)]
         IN Return(Ok, Some(updatedZoo), Insert(zoos, updatedZoo.id, updatedZoo), animals)
    ELSE Return(Err(<<"Zoo with id=", id, " not found.">>), None, zoos, animals)

updateZoo(id, payload, t) ==
    /\ build = "index"
    /\ Commit(updateZooCall(zooStorage, animalStorage, id, payload, t), FALSE, t)

\* Mutant: the comparison is inverted (=== for !==).
NotOwner_inverted(existingZoo, caller) ==
    PrincipalToString(existingZoo.owner) = IcCallerToString

\* index.ts line 172 compares the owner's text with ic.caller.toString(): the
\* text of the function ic.caller (the call parentheses are missing), not the
\* text of the caller.
NotOwner(existingZoo, caller) ==
    PrincipalToString(existingZoo.owner) # IcCallerToString

deleteZooCall(zoos, animals, id, caller) ==
    IF FalsyStr(id) THEN Return(Err(<<"Invalid id=", id, ".">>), None, zoos, animals)
    ELSE IF Has(zoos, id)
    THEN LET existingZoo == zoos[id]
         IN IF NotOwner(existingZoo, caller)
            THEN Return(Err(<<"User does not have the right to delete zoo">>), None,
                        zoos, animals)
            ELSE Return(Ok, Some(existingZoo), Remove(zoos, id), animals)
    ELSE Return(Err(<<"Zoo with id=", id, " not found.">>), None, zoos, animals)

deleteZoo(id, caller) ==
    /\ build = "index"
    /\ Commit(deleteZooCall(zooStorage, animalStorage, id, caller), FALSE, now)

(* ==================== src/src/index.ts: Animal CRUD ==================== *)

AnimalPayloadMissing(payload) ==
    \/ FalsyNum(payload.age) \/ FalsyStr(payload.animalType)
    \/ FalsyStr(payload.name) \/ FalsyStr(payload.zooId)

createAnimalCall(zoos, animals, payload, id, t) ==
    IF AnimalPayloadMissing(payload)
    THEN Return(Err(<<"Missing required fields in payload">>), None, zoos, animals)
    ELSE IF payload.age <= 0
    THEN Return(Err(<<"Age must be greater than zero.">>), None, zoos, animals)
    ELSE LET animal == [id |-> id, createdAt |-> t, updatedAt |-> None,
                        age |-> payload.age, animalType |-> payload.animalType,
                        name |-> payload.name, zooId |-> payload.zooId]
         IN Return(Ok, Some(animal), zoos, Insert(animals, animal.id, animal))

createAnimal(payload, t) ==
    /\ build = "index"
    /\ LET r == createAnimalCall(zooStorage, animalStorage, payload, uuidv4(uuids + 1), t)
       IN /\ r.res.tag = "Ok" => uuids < MaxUuids /\ Size(animalStorage) < MaxAnimals
          /\ Commit(r, TRUE, t)

\* $query getAnimalById
getAnimalById(animals, id) ==
    IF FalsyStr(id) THEN [res |-> Err(<<"Invalid id=", id, ".">>), val |-> None]
    ELSE IF Has(animals, id) THEN [res |-> Ok, val |-> Some(animals[id])]
    ELSE [res |-> Err(<<"Animal with id=", id, " not found.">>), val |-> None]

\* $query getAllAnimals
getAllAnimals(animals) == {animals[id] : id \in DOMAIN animals}

(* ===================== src/src/index.ts: membership ==================== *)

\* Mutant: an animal may only join the zoo its zooId names.
addAnimalToZooCall_homeZooOnly(zoos, animals, animalId, zooId) ==
    IF ~Has(animals, animalId)
    THEN Return(Err(<<"Animal with ID=", animalId, " not found.">>), None, zoos, animals)
    ELSE IF ~Has(zoos, zooId)
    THEN Return(Err(<<"Zoo with ID=", zooId, " not found.">>), None, zoos, animals)
    ELSE IF animals[animalId].zooId # zooId
    THEN Return(Err(<<"Animal with ID=", animalId, " belongs to another zoo.">>), None,
                zoos, animals)
    ELSE IF ~Includes(zoos[zooId].animalSpecies, animalId)
    THEN LET zoo == [zoos[zooId] EXCEPT !.animalSpecies = Push(@, animalId)]
         IN Return(Ok, Some(zoo), Insert(zoos, zooId, zoo), animals)
    ELSE Return(Err(<<"Animal with ID=", animalId, " is already in the zoo.">>), None,
                zoos, animals)

\* Mutant: the id is put at the front of the list (unshift for push).
addAnimalToZooCall_prepends(zoos, animals, animalId, zooId) ==
    IF ~Has(animals, animalId)
    THEN Return(Err(<<"Animal with ID=", animalId, " not found.">>), None, zoos, animals)
    ELSE IF ~Has(zoos, zooId)
    THEN Return(Err(<<"Zoo with ID=", zooId, " not found.">>), None, zoos, animals)
    ELSE IF ~Includes(zoos[zooId].animalSpecies, animalId)
    THEN LET zoo == [zoos[zooId] EXCEPT !.animalSpecies = <<animalId>> \o @]
         IN Return(Ok, Some(zoo), Insert(zoos, zooId, zoo), animals)
    ELSE Return(Err(<<"Animal with ID=", animalId, " is already in the zoo.">>), None,
                zoos, animals)

\* Mutant: the membership check is left out.
addAnimalToZooCall_noCheck(zoos, animals, animalId, zooId) ==
    IF ~Has(animals, animalId)
    THEN Return(Err(<<"Animal with ID=", animalId, " not found.">>), None, zoos, animals)
    ELSE IF ~Has(zoos, zooId)
    THEN Return(Err(<<"Zoo with ID=", zooId, " not found.">>), None, zoos, animals)
    ELSE LET zoo == [zoos[zooId] EXCEPT !.animalSpecies = Push(@, animalId)]
         IN Return(Ok, Some(zoo), Insert(zoos, zooId, zoo), animals)

addAnimalToZooCall(zoos, animals, animalId, zooId) ==
    IF ~Has(animals, animalId)
    THEN Return(Err(<<"Animal with ID=", animalId, " not found.">>), None, zoos, animals)
    ELSE IF ~Has(zoos, zooId)
    THEN Return(Err(<<"Zoo with ID=", zooId, " not found.">>), None, zoos, animals)
    ELSE IF ~Includes(zoos[zooId].animalSpecies, animalId)
    THEN LET zoo == [zoos[zooId] EXCEPT !.animalSpecies = Push(@, animalId)]
         IN Return(Ok, Some(zoo), Insert(zoos, zooId, zoo), animals)
    ELSE Return(Err(<<"Animal with ID=", animalId, " is already in the zoo.">>), None,
                zoos, animals)

addAnimalToZoo(animalId, zooId) ==
    /\ build = "index"
    /\ Commit(addAnimalToZooCall(zooStorage, animalStorage, animalId, zooId), FALSE, now)

deleteAnimalFromZooCall(zoos, animals, animalId, zooId) ==
    IF ~Has(zoos, zooId)
    THEN Return(Err(<<"Zoo with ID=", zooId, " not found.">>), None, zoos, animals)
    ELSE IF Includes(zoos[zooId].animalSpecies, animalId)
    THEN LET zoo == [zoos[zooId] EXCEPT !.animalSpecies = FilterOut(@, animalId)]
         IN Return(Ok, Some(zoo), Insert(zoos, zooId, zoo), animals)
    ELSE Return(Err(<<"Animal with ID=", animalId, " is not in the zoo.">>), None,
                zoos, animals)

deleteAnimalFromZoo(animalId, zooId) ==
    /\ build = "index"
    /\ Commit(deleteAnimalFromZooCall(zooStorage, animalStorage, animalId, zooId), FALSE, now)

(* ======================= src/unnamed/part_000 ========================== *)
(* The other build of the canister: no payload validation, no ownership    *)
(* check, and the handlers the first build lacks.                          *)

\* { id, createdAt, updatedAt, animalSpecies, owner, ...payload }
part000_createZooCall(zoos, animals, payload, caller, id, t) ==
    LET zoo == [id |-> id, createdAt |-> t, updatedAt |-> None, animalSpecies |-> <<>>,
                owner |-> caller, name |-> payload.name, location |-> payload.location,
                image |-> payload.image]
    IN Return(Ok, Some(zoo), Insert(zoos, zoo.id, zoo), animals)

part000_createZoo(payload, caller, t) ==
    /\ build = "part_000"
    /\ uuids < MaxUuids /\ Size(zooStorage) < MaxZoos
    /\ Commit(part000_createZooCall(zooStorage, animalStorage, payload, caller,
                                    uuidv4(uuids + 1), t), TRUE, t)

\* $query getZoo
getZoo(zoos, id) ==
    IF Has(zoos, id) THEN [res |-> Ok, val |-> Some(zoos[id])]
    ELSE [res |-> Err(<<"Zoo with ID=", id, " not found.">>), val |-> None]

\* Mutant: the record is rebuilt from the payload, its member list reset.
part000_updateZooCall_clearsMembers(zoos, animals, id, payload, t) ==
    IF Has(zoos, id)
    THEN LET updatedZoo == [zoos[id] EXCEPT !.name = payload.name,
                                            !.location = payload.location,
                                            !.image = payload.image,
                                            !.animalSpecies = <<>>,
                                            !.updatedAt = Some(t)]
         IN Return(Ok, Some(updatedZoo), Insert(zoos, updatedZoo.id, updatedZoo), animals)
    ELSE Return(Err(<<"Zoo with ID=", id, " not found.">>), None, zoos, animals)

\* { ...existingZoo, ...payload, updatedAt: Opt.Some(ic.time()) }
part000_updateZooCall(zoos, animals, id, payload, t) ==
    IF Has(zoos, id)
    THEN LET updatedZoo == [zoos[id] EXCEPT !.name = payload.name,
                                            !.location = payload.location,
                                            !.image = payload.image,
                                            !.updatedAt = Some(t)]
         IN Return(Ok, Some(updatedZoo), Insert(zoos, updatedZoo.id, updatedZoo), animals)
    ELSE Return(Err(<<"Zoo with ID=", id, " not found.">>), None, zoos, animals)

part000_updateZoo(id, payload, t) ==
    /\ build = "part_000"
    /\ Commit(part000_updateZooCall(zooStorage, animalStorage, id, payload, t), FALSE, t)

part000_deleteZooCall(zoos, animals, id, caller) ==
    IF Has(zoos, id)
    THEN Return(Ok, Some(zoos[id]), Remove(zoos, id), animals)
    ELSE Return(Err(<<"Zoo with ID=", id, " not found.">>), None, zoos, animals)

part000_deleteZoo(id, caller) ==
    /\ build = "part_000"
    /\ Commit(part000_deleteZooCall(zooStorage, animalStorage, id, caller), FALSE, now)

\* { id, createdAt, updatedAt, ...payload }
part000_createAnimalCall(zoos, animals, payload, id, t) ==
    LET animal == [id |-> id, createdAt |-> t, updatedAt |-> None, age |-> payload.age,
                   animalType |-> payload.animalType, name |-> payload.name,
                   zooId |-> payload.zooId]
    IN Return(Ok, Some(animal), zoos, Insert(animals, animal.id, animal))

part000_createAnimal(payload, t) ==
    /\ build = "part_000"
    /\ uuids < MaxUuids /\ Size(animalStorage) < MaxAnimals
    /\ Commit(part000_createAnimalCall(zooStorage, animalStorage, payload,
                                       uuidv4(uuids + 1), t), TRUE, t)

\* $query getAnimal
getAnimal(animals, id) ==
    IF Has(animals, id) THEN [res |-> Ok, val |-> Some(animals[id])]
    ELSE [res |-> Err(<<"Animal with ID=", id, " not found.">>), val |-> None]

part000_addAnimalToZooCall(zoos, animals, animalId, zooId) ==
    IF ~Has(animals, animalId)
    THEN Return(Err(<<"Animal with ID=", animalId, " not found.">>), None, zoos, animals)
    ELSE IF ~Has(zoos, zooId)
    THEN Return(Err(<<"Zoo with ID=", zooId, " not found.">>), None, zoos, animals)
    ELSE IF ~Includes(zoos[zooId].animalSpecies, animalId)
    THEN LET zoo == [zoos[zooId] EXCEPT !.animalSpecies = Push(@, animalId)]
         IN Return(Ok, Some(zoo), Insert(zoos, zooId, zoo), animals)
    ELSE Return(Err(<<"Animal with ID=", animalId, " is already in the zoo.">>), None,
                zoos, animals)

part000_addAnimalToZoo(animalId, zooId) ==
    /\ build = "part_000"
    /\ Commit(part000_addAnimalToZooCall(zooStorage, animalStorage, animalId, zooId),
              FALSE, now)

\* Mutant: the animal is looked up first, as in addAnimalToZoo.
part000_deleteAnimalFromZooCall_requiresAnimal(zoos, animals, animalId, zooId) ==
    IF ~Has(animals, animalId)
    THEN Return(Err(<<"Animal with ID=", animalId, " not found.">>), None, zoos, animals)
    ELSE IF ~Has(zoos, zooId)
    THEN Return(Err(<<"Zoo with ID=", zooId, " not found.">>), None, zoos, animals)
    ELSE IF Includes(zoos[zooId].animalSpecies, animalId)
    THEN LET zoo == [zoos[zooId] EXCEPT !.animalSpecies = FilterOut(@, animalId)]
         IN Return(Ok, Some(zoo), Insert(zoos, zooId, zoo), animals)
    ELSE Return(Err(<<"Animal with ID=", animalId, " is not in the zoo.">>), None,
                zoos, animals)

part000_deleteAnimalFromZooCall(zoos, animals, animalId, zooId) ==
    IF ~Has(zoos, zooId)
    THEN Return(Err(<<"Zoo with ID=", zooId, " not found.">>), None, zoos, animals)
    ELSE IF Includes(zoos[zooId].animalSpecies, animalId)
    THEN LET zoo == [zoos[zooId] EXCEPT !.animalSpecies = FilterOut(@, animalId)]
         IN Return(Ok, Some(zoo), Insert(zoos, zooId, zoo), animals)
    ELSE Return(Err(<<"Animal with ID=", animalId, " is not in the zoo.">>), None,
                zoos, animals)

part000_deleteAnimalFromZoo(animalId, zooId) ==
    /\ build = "part_000"
    /\ Commit(part000_deleteAnimalFromZooCall(zooStorage, animalStorage, animalId, zooId),
              FALSE, now)

\* A call that ends in an uncaught exception: the canister traps and the
\* caller gets no Result.
Trap(m) == [tag |-> "Trap", msg |-> m]

\* $query getAnimalsInZoo.  The None arm of the inner match is the value
\* null (line 191), not a function.  match applies the arm of the variant it
\* is given, so a member id that animalStorage.get does not resolve makes
\* the call throw a TypeError; when every member resolves, map yields the
\* records and the filter keeps them all.
getAnimalsInZoo(zoos, animals, zooId) ==
    IF ~Has(zoos, zooId)
    THEN [res |-> Err(<<"Zoo with ID=", zooId, " not found.">>), val |-> <<>>]
    ELSE LET animalIds == zoos[zooId].animalSpecies
         IN IF \E i \in 1..Len(animalIds) : ~Has(animals, animalIds[i])
            THEN [res |-> Trap(<<"TypeError: null is not a function">>), val |-> <<>>]
            ELSE [res |-> Ok,
                  val |-> [i \in 1..Len(animalIds) |-> animals[animalIds[i]]]]

\* $query getZooOwner
getZooOwner(zoos, zooId) ==
    IF Has(zoos, zooId) THEN [res |-> Ok, val |-> Some(zoos[zooId].owner)]
    ELSE [res |-> Err(<<"Zoo with ID=", zooId, " not found.">>), val |-> None]

\* Mutant: the payload is validated as createAnimal of index.ts validates it.
updateAnimalCall_validates(zoos, animals, id, payload, t) ==
    IF AnimalPayloadMissing(payload)
    THEN Return(Err(<<"Missing required fields in payload">>), None, zoos, animals)
    ELSE IF payload.age <= 0
    THEN Return(Err(<<"Age must be greater than zero.">>), None, zoos, animals)
    ELSE IF Has(animals, id)
    THEN LET updatedAnimal == [animals[id] EXCEPT !.age = payload.age,
                                                  !.animalType = payload.animalType,
                                                  !.name = payload.name,
                                                  !.zooId = payload.zooId,
                                                  !.updatedAt = Some(t)]
         IN Return(Ok, Some(updatedAnimal), zoos,
                   Insert(animals, updatedAnimal.id, updatedAnimal))
    ELSE Return(Err(<<"Animal with ID=", id, " not found.">>), None, zoos, animals)

\* Mutant: the spread is written the other way round, the existing record's
\* fields overriding the payload's and the new updatedAt.
updateAnimalCall_existingWins(zoos, animals, id, payload, t) ==
    IF Has(animals, id)
    THEN LET updatedAnimal == animals[id]
         IN Return(Ok, Some(updatedAnimal), zoos,
                   Insert(animals, updatedAnimal.id, updatedAnimal))
    ELSE Return(Err(<<"Animal with ID=", id, " not found.">>), None, zoos, animals)

\* { ...existingAnimal, ...payload, updatedAt: Opt.Some(ic.time()) }
updateAnimalCall(zoos, animals, id, payload, t) ==
    IF Has(animals, id)
    THEN LET updatedAnimal == [animals[id] EXCEPT !.age = payload.age,
                                                  !.animalType = payload.animalType,
                                                  !.name = payload.name,
                                                  !.zooId = payload.zooId,
                                                  !.updatedAt = Some(t)]
         IN Return(Ok, Some(updatedAnimal), zoos,
                   Insert(animals, updatedAnimal.id, updatedAnimal))
    ELSE Return(Err(<<"Animal with ID=", id, " not found.">>), None, zoos, animals)

updateAnimal(id, payload, t) ==
    /\ build = "part_000"
    /\ Commit(updateAnimalCall(zooStorage, animalStorage, id, payload, t),
              FALSE, t)

\* Mutant: the deleted animal is also taken off the list of the zoo its
\* zooId names.
deleteAnimalCall_unlistsHomeZoo(zoos, animals, id) ==
    IF Has(animals, id)
    THEN Return(Ok, Some(animals[id]),
                [z \in DOMAIN zoos |->
                    IF z = animals[id].zooId
                    THEN [zoos[z] EXCEPT !.animalSpecies = FilterOut(@, id)]
                    ELSE zoos[z]],
                Remove(animals, id))
    ELSE Return(Err(<<"Animal with ID=", id, " not found.">>), None, zoos, animals)

\* Mutant: deleting an id that is not stored reports success.
deleteAnimalCall_silentSuccess(zoos, animals, id) ==
    IF Has(animals, id)
    THEN Return(Ok, Some(animals[id]), zoos, Remove(animals, id))
    ELSE Return(Ok, None, zoos, animals)

\* Mutant: the delete cascades into every zoo's animalSpecies.
deleteAnimalCall_cascades(zoos, animals, id) ==
    IF Has(animals, id)
    THEN Return(Ok, Some(animals[id]),
                [z \in DOMAIN zoos |->
                    [zoos[z] EXCEPT !.animalSpecies = FilterOut(@, id)]],
                Remove(animals, id))
    ELSE Return(Err(<<"Animal with ID=", id, " not found.">>), None, zoos, animals)

deleteAnimalCall(zoos, animals, id) ==
    IF Has(animals, id)
    THEN Return(Ok, Some(animals[id]), zoos, Remove(animals, id))
    ELSE Return(Err(<<"Animal with ID=", id, " not found.">>), None, zoos, animals)

deleteAnimal(id) ==
    /\ build = "part_000"
    /\ Commit(deleteAnimalCall(zooStorage, animalStorage, id), FALSE, now)

\* $query getAnimalCountInZoo
getAnimalCountInZoo(zoos, zooId) ==
    IF Has(zoos, zooId) THEN [res |-> Ok, val |-> Some(Len(zoos[zooId].animalSpecies))]
    ELSE [res |-> Err(<<"Zoo with ID=", zooId, " not found.">>), val |-> None]

\* $query getAnimalAge
getAnimalAge(animals, id) ==
    IF Has(animals, id) THEN [res |-> Ok, val |-> Some(animals[id].age)]
    ELSE [res |-> Err(<<"Animal with ID=", id, " not found.">>), val |-> None]

\* $query getZooCount, getAnimalCount
getZooCount(zoos) == Size(zoos)
getAnimalCount(animals) == Size(animals)

(* ============================ the canister ============================= *)

Next ==
    \/ \E p \in ZooPayloads, c \in Principals, t \in now..MaxTime : createZoo(p, c, t)
    \/ \E id \in IdInputs, p \in ZooPayloads, t \in now..MaxTime : updateZoo(id, p, t)
    \/ \E id \in IdInputs, c \in Principals : deleteZoo(id, c)
    \/ \E p \in AnimalPayloads, t \in now..MaxTime : createAnimal(p, t)
    \/ \E a \in IdInputs, z \in IdInputs : addAnimalToZoo(a, z)
    \/ \E a \in IdInputs, z \in IdInputs : deleteAnimalFromZoo(a, z)
    \/ \E p \in ZooPayloads, c \in Principals, t \in now..MaxTime : part000_createZoo(p, c, t)
    \/ \E id \in IdInputs, p \in ZooPayloads, t \in now..MaxTime : part000_updateZoo(id, p, t)
    \/ \E id \in IdInputs, c \in Principals : part000_deleteZoo(id, c)
    \/ \E p \in AnimalPayloads, t \in now..MaxTime : part000_createAnimal(p, t)
    \/ \E a \in IdInputs, z \in IdInputs : part000_addAnimalToZoo(a, z)
    \/ \E a \in IdInputs, z \in IdInputs : part000_deleteAnimalFromZoo(a, z)
    \/ \E id \in IdInputs, p \in AnimalPayloads, t \in now..MaxTime : updateAnimal(id, p, t)
    \/ \E id \in IdInputs : deleteAnimal(id)

Spec == Init /\ [][Next]_vars

(* ============================== claims ================================= *)

\* The calls of the deployed build, on the canister's current state.
CreateZooNow(p, c, t) ==
    IF build = "index"
    THEN createZooCall(zooStorage, animalStorage, p, c, uuidv4(uuids + 1), t)
    ELSE part000_createZooCall(zooStorage, animalStorage, p, c, uuidv4(uuids + 1), t)
UpdateZooNow(id, p, t) ==
    IF build = "index" THEN updateZooCall(zooStorage, animalStorage, id, p, t)
    ELSE part000_updateZooCall(zooStorage, animalStorage, id, p, t)
DeleteZooNow(id, c) ==
    IF build = "index" THEN deleteZooCall(zooStorage, animalStorage, id, c)
    ELSE part000_deleteZooCall(zooStorage, animalStorage, id, c)
CreateAnimalNow(p, t) ==
    IF build = "index"
    THEN createAnimalCall(zooStorage, animalStorage, p, uuidv4(uuids + 1), t)
    ELSE part000_createAnimalCall(zooStorage, animalStorage, p, uuidv4(uuids + 1), t)
AddIn(zoos, animals, a, z) ==
    IF build = "index" THEN addAnimalToZooCall(zoos, animals, a, z)
    ELSE part000_addAnimalToZooCall(zoos, animals, a, z)
AddNow(a, z) == AddIn(zooStorage, animalStorage, a, z)
RemoveNow(a, z) ==
    IF build = "index" THEN deleteAnimalFromZooCall(zooStorage, animalStorage, a, z)
    ELSE part000_deleteAnimalFromZooCall(zooStorage, animalStorage, a, z)

Times == now..MaxTime
Count(s, x) == Cardinality({i \in 1..Len(s) : s[i] = x})
Untouched(r) == r.zoos = zooStorage /\ r.animals = animalStorage

\* C1: in every reachable state no stored zoo's animalSpecies holds the same
\* animal id twice.
C1_NoDuplicateMember ==
    \A z \in DOMAIN zooStorage :
        \A i, j \in 1..Len(zooStorage[z].animalSpecies) :
            i # j => zooStorage[z].animalSpecies[i] # zooStorage[z].animalSpecies[j]

\* A zoo that two successful addAnimalToZoo calls have filled.
C1_Witness == \E z \in DOMAIN zooStorage : Len(zooStorage[z].animalSpecies) = 2

AuthorizationError == Err(<<"User does not have the right to delete zoo">>)

\* C3: in the build of index.ts, deleteZoo(Z) on a stored zoo Z by a caller
\* other than Z's owner returns the authorization error and leaves Z stored
\* unchanged: getZooById(Z) afterwards returns the same record.
C3_NonOwnerCannotDelete ==
    build = "index" =>
        \A id \in DOMAIN zooStorage, c2 \in Principals :
            c2 # zooStorage[id].owner =>
                LET r == deleteZooCall(zooStorage, animalStorage, id, c2)
                IN /\ r.res = AuthorizationError
                   /\ r.zoos = zooStorage
                   /\ getZooById(r.zoos, id) = [res |-> Ok, val |-> Some(zooStorage[id])]

\* A zoo created by principal 1, which principal 2 may try to delete.
C3_Witness ==
    /\ build = "index"
    /\ \E id \in DOMAIN zooStorage :
           /\ zooStorage[id].owner = 1
           /\ deleteZooCall(zooStorage, animalStorage, id, 2).res.tag = "Err"

\* C4: in the build of index.ts, deleteZoo(id) on a stored zoo by the zoo's
\* owner returns Ok with the deleted record and removes it: getZooById(id)
\* then answers not found and the zoo store holds one record fewer.
C4_OwnerDeletes ==
    build = "index" =>
        \A id \in DOMAIN zooStorage :
            LET r == deleteZooCall(zooStorage, animalStorage, id, zooStorage[id].owner)
            IN /\ r.res = Ok
               /\ r.val = Some(zooStorage[id])
               /\ getZooById(r.zoos, id).res = Err(<<"Zoo with id=", id, " not found.">>)
               /\ getZooCount(r.zoos) = getZooCount(zooStorage) - 1

\* C5: a zoo's owner, id and createdAt are fixed from creation to deletion: a
\* zoo that enters the store was made by a createZoo call and carries that
\* call's caller, uuid and time; no step changes them on a stored zoo.
C5_OwnerFixed ==
    [][ /\ \A id \in DOMAIN zooStorage' \ DOMAIN zooStorage :
               \E p \in ZooPayloads, c \in Principals :
                   /\ createZoo(p, c, now') \/ part000_createZoo(p, c, now')
                   /\ id = uuidv4(uuids')
                   /\ zooStorage'[id].owner = c
                   /\ zooStorage'[id].id = id
                   /\ zooStorage'[id].createdAt = now'
        /\ \A id \in DOMAIN zooStorage \cap DOMAIN zooStorage' :
               /\ zooStorage'[id].owner = zooStorage[id].owner
               /\ zooStorage'[id].id = zooStorage[id].id
               /\ zooStorage'[id].createdAt = zooStorage[id].createdAt ]_vars

\* A zoo of principal 2, created at time 0, that has since been updated at
\* time 1 and given a member.
C5_Witness ==
    \E z \in DOMAIN zooStorage :
        /\ zooStorage[z].owner = 2
        /\ zooStorage[z].createdAt = 0
        /\ zooStorage[z].updatedAt = Some(1)
        /\ Len(zooStorage[z].animalSpecies) > 0

\* C6: for a stored animal a and a stored zoo z that does not list a, a
\* first addAnimalToZoo(a, z) returns Ok and a second one, right after it,
\* returns the conflict error; z then lists a exactly once.
C6_AddTwice ==
    \A a \in DOMAIN animalStorage, z \in DOMAIN zooStorage :
        ~Includes(zooStorage[z].animalSpecies, a) =>
            LET r1 == AddNow(a, z)
                r2 == AddIn(r1.zoos, r1.animals, a, z)
            IN /\ r1.res = Ok
               /\ r2.res = Err(<<"Animal with ID=", a, " is already in the zoo.">>)
               /\ Count(r2.zoos[z].animalSpecies, a) = 1

\* The state between the two calls: a was added to a zoo that already had a
\* member, and adding a again is refused.
C6_Witness ==
    \E z \in DOMAIN zooStorage, a \in DOMAIN animalStorage :
        /\ Len(zooStorage[z].animalSpecies) = 2
        /\ zooStorage[z].animalSpecies[2] = a
        /\ AddNow(a, z).res = Err(<<"Animal with ID=", a, " is already in the zoo.">>)

\* C7: createAnimal with an age of 0 or less and the other fields filled in
\* returns the error "Age must be greater than zero.", stores nothing and
\* leaves the animal count as it was.
C7_AgeZeroRejectedAsAge ==
    \A p \in AnimalPayloads, t \in Times :
        (p.age <= 0 /\ p.animalType # "" /\ p.name # "" /\ p.zooId # "") =>
            LET r == CreateAnimalNow(p, t)
            IN /\ r.res = Err(<<"Age must be greater than zero.">>)
               /\ Untouched(r)
               /\ getAnimalCount(r.animals) = getAnimalCount(animalStorage)

\* The Animal records the member ids of zoo z resolve to, in animalSpecies
\* order, the ids that do not resolve left out.
ResolvedMembers(z) ==
    LET present == SelectSeq(zooStorage[z].animalSpecies,
                             LAMBDA a : Has(animalStorage, a))
    IN [i \in 1..Len(present) |-> animalStorage[present[i]]]

\* C8: for every stored zoo z, getAnimalsInZoo(z) returns Ok with the records
\* of the member ids that resolve, in animalSpecies order; a member whose
\* animal was deleted is skipped and makes the call neither fail nor trap.
C8_AnimalsInZooSkipsMissing ==
    build = "part_000" =>
        \A z \in DOMAIN zooStorage :
            getAnimalsInZoo(zooStorage, animalStorage, z)
                = [res |-> Ok, val |-> ResolvedMembers(z)]

\* C9: a deleteZoo that returns Ok leaves the animal store as it was, and a
\* deleteAnimal that returns Ok leaves the zoo store as it was.
C9_DeletesDoNotCascade ==
    /\ \A id \in IdInputs, c \in Principals :
           DeleteZooNow(id, c).res = Ok => DeleteZooNow(id, c).animals = animalStorage
    /\ build = "part_000" =>
           \A id \in IdInputs :
               LET r == deleteAnimalCall(zooStorage, animalStorage, id)
               IN r.res = Ok => r.zoos = zooStorage

\* A zoo with a member whose zooId names it: deleteZoo of the zoo and
\* deleteAnimal of the member both return Ok here, the first leaving the
\* animal stored, the second leaving the id in animalSpecies.
C9_Witness ==
    /\ build = "part_000"
    /\ \E z \in DOMAIN zooStorage, a \in DOMAIN animalStorage :
           /\ animalStorage[a].zooId = z
           /\ Includes(zooStorage[z].animalSpecies, a)
           /\ DeleteZooNow(z, 1).res = Ok
           /\ Has(DeleteZooNow(z, 1).animals, a)
           /\ deleteAnimalCall(zooStorage, animalStorage, a).res = Ok
           /\ Includes(deleteAnimalCall(zooStorage, animalStorage, a).zoos[z].animalSpecies, a)

\* C10 as stated: a created zoo has no updatedAt, and after every successful
\* updateZoo, addAnimalToZoo or deleteAnimalFromZoo the zoo's updatedAt is the
\* time of that call.
C10_UpdatedAtAfterEveryMutation ==
    /\ \A p \in ZooPayloads, c \in Principals, t \in Times :
           CreateZooNow(p, c, t).res = Ok => CreateZooNow(p, c, t).val[1].updatedAt = None
    /\ \A z \in DOMAIN zooStorage, t \in Times :
           /\ \A p \in ZooPayloads :
                  UpdateZooNow(z, p, t).res = Ok =>
                      UpdateZooNow(z, p, t).zoos[z].updatedAt = Some(t)
           /\ \A a \in IdInputs :
                  /\ AddNow(a, z).res = Ok =>
                         \E u \in Times : AddNow(a, z).zoos[z].updatedAt = Some(u)
                  /\ RemoveNow(a, z).res = Ok =>
                         \E u \in Times : RemoveNow(a, z).zoos[z].updatedAt = Some(u)

\* C10 as amended: a zoo enters the store without an updatedAt; a step that
\* changes a stored zoo's animalSpecies (addAnimalToZoo, deleteAnimalFromZoo)
\* leaves its updatedAt as it was; any other step that changes a stored zoo
\* is an updateZoo and sets updatedAt to the time of that call.
C10_UpdatedAtByUpdateZooOnly ==
    [][ /\ \A id \in DOMAIN zooStorage' \ DOMAIN zooStorage :
               zooStorage'[id].updatedAt = None
        /\ \A id \in DOMAIN zooStorage \cap DOMAIN zooStorage' :
               zooStorage'[id] # zooStorage[id] =>
                   IF zooStorage'[id].animalSpecies # zooStorage[id].animalSpecies
                   THEN /\ zooStorage'[id].updatedAt = zooStorage[id].updatedAt
                        /\ \E a \in IdInputs :
                               \/ addAnimalToZoo(a, id) \/ part000_addAnimalToZoo(a, id)
                               \/ deleteAnimalFromZoo(a, id)
                               \/ part000_deleteAnimalFromZoo(a, id)
                   ELSE /\ zooStorage'[id].updatedAt = Some(now')
                        /\ \E p \in ZooPayloads :
                               updateZoo(id, p, now') \/ part000_updateZoo(id, p, now') ]_vars

\* A zoo updated at time 1, and a zoo that has a member and still no
\* updatedAt.
C10_Witness ==
    /\ \E z \in DOMAIN zooStorage : zooStorage[z].updatedAt = Some(1)
    /\ \E z \in DOMAIN zooStorage :
           zooStorage[z].updatedAt = None /\ Len(zooStorage[z].animalSpecies) > 0

\* getById of the deployed build: getZooById / getAnimalById of index.ts,
\* getZoo / getAnimal of part_000.
GetZooNow(zoos, id) == IF build = "index" THEN getZooById(zoos, id) ELSE getZoo(zoos, id)
GetAnimalNow(animals, id) ==
    IF build = "index" THEN getAnimalById(animals, id) ELSE getAnimal(animals, id)

\* Optional timestamps in time order, an absent one the earliest.
NotBefore(new, old) == old = None \/ (new # None /\ new[1] >= old[1])

\* C11: with a clock that never goes back, no step lowers or clears the
\* updatedAt of a zoo or of an animal that stays stored; and a successful
\* updateZoo / updateAnimal leaves a record that getById returns with the
\* payload's fields and an updatedAt that is set and not before the one the
\* record had.
C11_UpdatedAtMonotonic ==
    /\ [](/\ \A z \in DOMAIN zooStorage, p \in ZooPayloads, t \in Times :
                 LET r == UpdateZooNow(z, p, t)
                     g == GetZooNow(r.zoos, z)
                 IN r.res = Ok =>
                        /\ g.res = Ok
                        /\ g.val[1].name = p.name
                        /\ g.val[1].location = p.location
                        /\ g.val[1].image = p.image
                        /\ g.val[1].updatedAt # None
                        /\ NotBefore(g.val[1].updatedAt, zooStorage[z].updatedAt)
          /\ build = "part_000" =>
                 \A a \in DOMAIN animalStorage, p \in AnimalPayloads, t \in Times :
                     LET r == updateAnimalCall(zooStorage, animalStorage, a, p, t)
                         g == getAnimal(r.animals, a)
                     IN r.res = Ok =>
                            /\ g.res = Ok
                            /\ g.val[1].age = p.age
                            /\ g.val[1].animalType = p.animalType
                            /\ g.val[1].name = p.name
                            /\ g.val[1].zooId = p.zooId
                            /\ g.val[1].updatedAt # None
                            /\ NotBefore(g.val[1].updatedAt, animalStorage[a].updatedAt))
    /\ [][ /\ \A z \in DOMAIN zooStorage \cap DOMAIN zooStorage' :
                  NotBefore(zooStorage'[z].updatedAt, zooStorage[z].updatedAt)
           /\ \A a \in DOMAIN animalStorage \cap DOMAIN animalStorage' :
                  NotBefore(animalStorage'[a].updatedAt, animalStorage[a].updatedAt) ]_vars

\* A zoo and an animal, both made at time 0, the zoo updated at time 0 and
\* the animal at time 1: a further update of either, at time 1, meets a
\* record whose updatedAt is already set.
C11_Witness ==
    /\ build = "part_000"
    /\ \E z \in DOMAIN zooStorage, a \in DOMAIN animalStorage :
           /\ zooStorage[z].createdAt = 0 /\ zooStorage[z].updatedAt = Some(0)
           /\ animalStorage[a].createdAt = 0 /\ animalStorage[a].updatedAt = Some(1)
           /\ now = 1

\* The not-found error of either build: "<Zoo|Animal> with id=<id> not found."
NotFoundError(res, id) ==
    res.tag = "Err" /\ Len(res.msg) = 3 /\ res.msg[2] = id /\ res.msg[3] = " not found."

\* C12 as stated: for every id that is not a key of the store, the empty
\* string included, deleteZoo(id) and deleteAnimal(id) return the not-found
\* error and leave both stores as they were.
C12_DeleteMissingIsNotFound ==
    /\ \A id \in IdInputs \ DOMAIN zooStorage, c \in Principals :
           /\ NotFoundError(DeleteZooNow(id, c).res, id)
           /\ Untouched(DeleteZooNow(id, c))
    /\ build = "part_000" =>
           \A id \in IdInputs \ DOMAIN animalStorage :
               LET r == deleteAnimalCall(zooStorage, animalStorage, id)
               IN NotFoundError(r.res, id) /\ Untouched(r)

\* C12 as amended: for every id that is not a key of the store, deleteZoo(id)
\* and deleteAnimal(id) return an error and leave both stores as they were;
\* the error is the not-found error, except that deleteZoo of index.ts
\* answers the empty string with the invalid-id error.
C12_DeleteMissingIsRefused ==
    /\ \A id \in IdInputs \ DOMAIN zooStorage, c \in Principals :
           /\ IF build = "index" /\ id = ""
              THEN DeleteZooNow(id, c).res = Err(<<"Invalid id=", id, ".">>)
              ELSE NotFoundError(DeleteZooNow(id, c).res, id)
           /\ Untouched(DeleteZooNow(id, c))
    /\ build = "part_000" =>
           \A id \in IdInputs \ DOMAIN animalStorage :
               LET r == deleteAnimalCall(zooStorage, animalStorage, id)
               IN NotFoundError(r.res, id) /\ Untouched(r)

\* Every id drawn so far named a record that has since been deleted, and
\* deleting any of them again is refused as not found.
C12_Witness ==
    /\ build = "part_000"
    /\ uuids = MaxUuids
    /\ zooStorage = EmptyMap /\ animalStorage = EmptyMap
    /\ \A i \in 1..uuids :
           /\ NotFoundError(DeleteZooNow(uuidv4(i), 1).res, uuidv4(i))
           /\ NotFoundError(deleteAnimalCall(zooStorage, animalStorage, uuidv4(i)).res,
                            uuidv4(i))

\* The payloads the validation of index.ts accepts.
ValidZooPayload(p) == ~ZooPayloadMissing(p)
ValidAnimalPayload(p) == ~AnimalPayloadMissing(p) /\ p.age > 0

\* The ids uuidv4 has handed out so far: every id any record ever had.
UsedIds == {uuidv4(i) : i \in 1..uuids}

\* C13: for every valid payload createZoo / createAnimal returns Ok with a
\* record whose id is non-empty and was never used before, whose updatedAt is
\* absent (a zoo's animalSpecies empty and its owner the caller); getById of
\* that id then returns exactly that record, and every record stored before
\* is still stored unchanged, in both stores.
C13_CreateRoundTrip ==
    /\ \A p \in ZooPayloads, c \in Principals, t \in Times :
           ValidZooPayload(p) =>
               LET r == CreateZooNow(p, c, t)
                   zoo == r.val[1]
               IN /\ r.res = Ok
                  /\ zoo.id # "" /\ zoo.id \notin UsedIds
                  /\ zoo.updatedAt = None
                  /\ zoo.animalSpecies = <<>>
                  /\ zoo.owner = c
                  /\ zoo.name = p.name /\ zoo.location = p.location /\ zoo.image = p.image
                  /\ GetZooNow(r.zoos, zoo.id) = [res |-> Ok, val |-> Some(zoo)]
                  /\ \A k \in DOMAIN zooStorage : Has(r.zoos, k) /\ r.zoos[k] = zooStorage[k]
                  /\ r.animals = animalStorage
    /\ \A p \in AnimalPayloads, t \in Times :
           ValidAnimalPayload(p) =>
               LET r == CreateAnimalNow(p, t)
                   animal == r.val[1]
               IN /\ r.res = Ok
                  /\ animal.id # "" /\ animal.id \notin UsedIds
                  /\ animal.updatedAt = None
                  /\ animal.age = p.age /\ animal.animalType = p.animalType
                  /\ animal.name = p.name /\ animal.zooId = p.zooId
                  /\ GetAnimalNow(r.animals, animal.id) = [res |-> Ok, val |-> Some(animal)]
                  /\ \A k \in DOMAIN animalStorage :
                         Has(r.animals, k) /\ r.animals[k] = animalStorage[k]
                  /\ r.zoos = zooStorage

\* The index.ts canister holding two created zoos and a created animal, each
\* as create returned it and as getById returns it.
C13_Witness ==
    /\ build = "index"
    /\ Size(zooStorage) = 2 /\ Size(animalStorage) = 1
    /\ \A z \in DOMAIN zooStorage :
           /\ zooStorage[z].updatedAt = None /\ zooStorage[z].animalSpecies = <<>>
           /\ getZooById(zooStorage, z) = [res |-> Ok, val |-> Some(zooStorage[z])]
    /\ \A a \in DOMAIN animalStorage :
           /\ animalStorage[a].updatedAt = None
           /\ getAnimalById(animalStorage, a) = [res |-> Ok, val |-> Some(animalStorage[a])]

\* C14: an updateZoo(id, payload) that returns Ok leaves the zoo of that id
\* with its id, owner, animalSpecies and createdAt as they were, leaves every
\* other zoo record and the set of stored zoos as they were, and leaves the
\* animal store as it was: name, location, image and updatedAt of the one zoo
\* are all it may change.
C14_UpdateZooFrame ==
    \A id \in IdInputs, p \in ZooPayloads, t \in Times :
        LET r == UpdateZooNow(id, p, t)
        IN r.res = Ok =>
               /\ DOMAIN r.zoos = DOMAIN zooStorage
               /\ id \in DOMAIN zooStorage
               /\ r.zoos[id] = [zooStorage[id] EXCEPT !.name = r.zoos[id].name,
                                                       !.location = r.zoos[id].location,
                                                       !.image = r.zoos[id].image,
                                                       !.updatedAt = r.zoos[id].updatedAt]
               /\ \A k \in DOMAIN zooStorage \ {id} : r.zoos[k] = zooStorage[k]
               /\ r.animals = animalStorage

\* Two zoos and an animal: the zoo that lists the animal has been renamed
\* by an updateZoo at time 1, after the add, and still lists it; the other
\* zoo has never been updated.
C14_Witness ==
    /\ Size(animalStorage) = 1
    /\ \E z1, z2 \in DOMAIN zooStorage :
           /\ z1 # z2
           /\ zooStorage[z1].name = "City Zoo"
           /\ zooStorage[z1].updatedAt = Some(1)
           /\ zooStorage[z1].createdAt = 0
           /\ Len(zooStorage[z1].animalSpecies) = 1
           /\ Has(animalStorage, zooStorage[z1].animalSpecies[1])
           /\ zooStorage[z2].updatedAt = None

\* deleteAnimalFromZoo of the deployed build on the given stores.
RemoveIn(zoos, animals, a, z) ==
    IF build = "index" THEN deleteAnimalFromZooCall(zoos, animals, a, z)
    ELSE part000_deleteAnimalFromZooCall(zoos, animals, a, z)

\* C15: for a stored zoo z and any id a, deleteAnimalFromZoo(a, z) gives the
\* same result and the same zoo store whatever the animal store holds.  If a
\* is in z's animalSpecies it returns Ok, whether or not animal a is still
\* stored, and z's new list is the old one without a, the rest in order;
\* if a is not in the list it returns the conflict error and changes
\* nothing.  After a successful removal of z's only member
\* getAnimalCountInZoo(z) is 0.
C15_RemoveIsListOnly ==
    \A z \in DOMAIN zooStorage, a \in IdInputs :
        LET old == zooStorage[z].animalSpecies
            r == RemoveNow(a, z)
            blind == RemoveIn(zooStorage, EmptyMap, a, z)
        IN /\ blind.res = r.res /\ blind.zoos = r.zoos
           /\ r.animals = animalStorage
           /\ IF \E i \in 1..Len(old) : old[i] = a
              THEN /\ r.res = Ok
                   /\ r.zoos[z].animalSpecies = SelectSeq(old, LAMBDA x : x # a)
                   /\ r.zoos = [zooStorage EXCEPT ![z].animalSpecies =
                                    SelectSeq(old, LAMBDA x : x # a)]
                   /\ r.val = Some(r.zoos[z])
                   /\ (build = "part_000" /\ old = <<a>>) =>
                          getAnimalCountInZoo(r.zoos, z) = [res |-> Ok, val |-> Some(0)]
              ELSE /\ r.res = Err(<<"Animal with ID=", a, " is not in the zoo.">>)
                   /\ Untouched(r)

\* A zoo listing a and then b, animal a deleted and animal b stored: removing
\* a succeeds and leaves the list <<b>>.
C15_Witness ==
    /\ build = "part_000"
    /\ \E z \in DOMAIN zooStorage, a, b \in IdInputs :
           /\ zooStorage[z].animalSpecies = <<a, b>>
           /\ ~Has(animalStorage, a) /\ Has(animalStorage, b)
           /\ RemoveNow(a, z).res = Ok
           /\ RemoveNow(a, z).zoos[z].animalSpecies = <<b>>

\* The ids of a list, as a set.
Members(s) == {s[i] : i \in 1..Len(s)}

\* C16: addAnimalToZoo(a, z) returns the not-found error when a is not in
\* the animal store or z is not in the zoo store; when both are stored and a
\* is not yet listed it returns Ok and z's list becomes the old list with a
\* appended.  Every step leaves a stored zoo's list as it was, appends one
\* new id to it, or takes one id out of it, and a zoo enters the store with
\* an empty list: so a list always holds its members in the order of the
\* adds that put them there.
C16_AddAppends ==
    /\ [](\A a \in IdInputs, z \in IdInputs :
              LET r == AddNow(a, z)
              IN IF ~Has(animalStorage, a)
                 THEN r.res = Err(<<"Animal with ID=", a, " not found.">>) /\ Untouched(r)
                 ELSE IF ~Has(zooStorage, z)
                 THEN r.res = Err(<<"Zoo with ID=", z, " not found.">>) /\ Untouched(r)
                 ELSE a \notin Members(zooStorage[z].animalSpecies) =>
                          /\ r.res = Ok
                          /\ r.zoos[z].animalSpecies = Append(zooStorage[z].animalSpecies, a)
                          /\ r.val = Some(r.zoos[z]))
    /\ [][ /\ \A z \in DOMAIN zooStorage' \ DOMAIN zooStorage :
                  zooStorage'[z].animalSpecies = <<>>
           /\ \A z \in DOMAIN zooStorage \cap DOMAIN zooStorage' :
                  LET old == zooStorage[z].animalSpecies
                      new == zooStorage'[z].animalSpecies
                  IN \/ new = old
                     \/ \E a \in DOMAIN animalStorage \ Members(old) : new = Append(old, a)
                     \/ \E a \in Members(old) : new = SelectSeq(old, LAMBDA x : x # a) ]_vars

\* A zoo whose list holds the later-created animal before the earlier-created
\* one: the order is that of the adds, not that of the ids.
C16_Witness ==
    \E z \in DOMAIN zooStorage, i, j \in 1..uuids :
        /\ i < j
        /\ Has(animalStorage, uuidv4(i)) /\ Has(animalStorage, uuidv4(j))
        /\ zooStorage[z].animalSpecies = <<uuidv4(j), uuidv4(i)>>

\* C17: for a stored animal a and a stored zoo z that does not list a,
\* addAnimalToZoo(a, z) returns Ok whatever a's zooId is and whatever other
\* zoos list a: the call gives the same result with a's zooId set to any
\* other id.  createAnimal and updateAnimal never change the zoo store, so no
\* animalSpecies follows an animal's zooId.
C17_AddIgnoresZooId ==
    /\ \A a \in DOMAIN animalStorage, z \in DOMAIN zooStorage :
           a \notin Members(zooStorage[z].animalSpecies) =>
               /\ AddNow(a, z).res = Ok
               /\ \A other \in IdInputs :
                      LET moved == [animalStorage EXCEPT ![a].zooId = other]
                      IN /\ AddIn(zooStorage, moved, a, z).res = Ok
                         /\ AddIn(zooStorage, moved, a, z).zoos = AddNow(a, z).zoos
    /\ \A p \in AnimalPayloads, t \in Times : CreateAnimalNow(p, t).zoos = zooStorage
    /\ build = "part_000" =>
           \A id \in IdInputs, p \in AnimalPayloads, t \in Times :
               updateAnimalCall(zooStorage, animalStorage, id, p, t).zoos = zooStorage

\* One animal listed by two zoos, one of which is not the zoo its zooId
\* names.
C17_Witness ==
    \E a \in DOMAIN animalStorage, z1, z2 \in DOMAIN zooStorage :
        /\ z1 # z2
        /\ a \in Members(zooStorage[z1].animalSpecies)
        /\ a \in Members(zooStorage[z2].animalSpecies)
        /\ animalStorage[a].zooId = z1

\* The members of zoo z whose animal record is stored.
ResolvingMembers(z) == Members(zooStorage[z].animalSpecies) \cap DOMAIN animalStorage

\* C18: in the build of part_000, for every stored zoo z,
\* getAnimalCountInZoo(z) returns the length of z's animalSpecies, which is
\* at least the number of z's members whose animal is stored; deleteAnimal of
\* a member leaves the count as it was.
C18_CountIsListLength ==
    build = "part_000" =>
        \A z \in DOMAIN zooStorage :
            /\ getAnimalCountInZoo(zooStorage, z)
                   = [res |-> Ok, val |-> Some(Len(zooStorage[z].animalSpecies))]
            /\ getAnimalCountInZoo(zooStorage, z).val[1] >= Cardinality(ResolvingMembers(z))
            /\ \A a \in ResolvingMembers(z) :
                   LET r == deleteAnimalCall(zooStorage, animalStorage, a)
                   IN /\ r.res = Ok
                      /\ getAnimalCountInZoo(r.zoos, z) = getAnimalCountInZoo(zooStorage, z)

\* A zoo that counts two animals of which only one is still stored.
C18_Witness ==
    /\ build = "part_000"
    /\ \E z \in DOMAIN zooStorage :
           /\ getAnimalCountInZoo(zooStorage, z) = [res |-> Ok, val |-> Some(2)]
           /\ Cardinality(ResolvingMembers(z)) = 1

\* What createAnimal of index.ts lets into the store: a positive age and
\* non-empty animalType, name and zooId.
WellFormedAnimal(animal) ==
    /\ animal.age > 0
    /\ animal.animalType # "" /\ animal.name # "" /\ animal.zooId # ""

\* C19: updateAnimal(id, payload) on a stored id returns Ok for every
\* payload and stores the record with the payload's age, animalType, name
\* and zooId, a new updatedAt, and the old id and createdAt; with a payload
\* createAnimal of index.ts would refuse, the stored record is no longer
\* well formed.  In the build of index.ts, which has no updateAnimal, every
\* stored animal is well formed.
C19_UpdateAnimalUnvalidated ==
    /\ build = "part_000" =>
           \A id \in DOMAIN animalStorage, p \in AnimalPayloads, t \in Times :
               LET r == updateAnimalCall(zooStorage, animalStorage, id, p, t)
                   new == [id |-> animalStorage[id].id,
                           createdAt |-> animalStorage[id].createdAt,
                           updatedAt |-> Some(t), age |-> p.age,
                           animalType |-> p.animalType, name |-> p.name,
                           zooId |-> p.zooId]
               IN /\ r.res = Ok
                  /\ r.val = Some(new)
                  /\ r.animals = [animalStorage EXCEPT ![id] = new]
                  /\ ~ValidAnimalPayload(p) => ~WellFormedAnimal(r.animals[id])
    /\ build = "index" => \A id \in DOMAIN animalStorage : WellFormedAnimal(animalStorage[id])

\* An animal created at time 0 that an updateAnimal at time 1 has left with
\* an age of 0 or less or an empty field.
C19_Witness ==
    /\ build = "part_000"
    /\ \E id \in DOMAIN animalStorage :
           /\ animalStorage[id].createdAt = 0
           /\ animalStorage[id].updatedAt = Some(1)
           /\ ~WellFormedAnimal(animalStorage[id])
====
